---- MODULE Spec2Model ----
(***************************************************************************)
(* A model of generate_mcqs (streamlit_app.py), the cloze-question         *)
(* generator of the NLP quiz application, and of its collaborator          *)
(* get_synonyms.                                                           *)
(*                                                                         *)
(* Python strings are sequences of one-character strings, so that          *)
(* len, strip, lower, isdigit, replace and chr are computed and not        *)
(* assumed.  The spaCy pipeline and WordNet are collaborators: the parse   *)
(* of a text (its sentences, tokens and part-of-speech tags), the          *)
(* vocabulary and the lemma table are inputs of a run.  Every call of the  *)
(* random module is a nondeterministic choice.                             *)
(*                                                                         *)
(* Spec is one call of generate_mcqs.  Session is the Streamlit session:   *)
(* the home page, whose Generate button calls extract_pdf_text and         *)
(* generate_mcqs, the quiz page and the results page, over                 *)
(* st.session_state.                                                       *)
(***************************************************************************)
EXTENDS Integers, Sequences, FiniteSets, TLC

VARIABLES
    text,                 \* argument of generate_mcqs: a string, or None
    nlp,                  \* argument: the pipeline, [doc, vocab]
    wordnet,              \* nltk's wordnet corpus: [ok, entries]
    num_questions,        \* argument (target_count)
    pc,                   \* position of the call inside generate_mcqs
    sentences,            \* line 44
    generated_questions,  \* line 51
    mcqs,                 \* line 52
    max_attempts,         \* line 53
    attempts,             \* line 54
    sentence,             \* line 58
    nouns,                \* line 60
    subject,              \* line 64
    question_stem,        \* line 65
    distractors,          \* lines 76-77, 86
    remaining_nouns,      \* line 79
    returned,             \* the value the call returned, None before it returns
    session_state,        \* st.session_state (lines 215-226)
    st_error,             \* the calls of st.error in the last run of the script
    rerun                 \* st.rerun() ended the last run: the script runs again

vars == <<text, nlp, wordnet, num_questions, pc, sentences,
          generated_questions, mcqs, max_attempts, attempts, sentence,
          nouns, subject, question_stem, distractors, remaining_nouns,
          returned, session_state, st_error, rerun>>

(***************************************************************************)
(* Bounds of the model.                                                    *)
(***************************************************************************)
MaxTarget == 2

(***************************************************************************)
(* Python's None, and the value of a local that is not bound.              *)
(***************************************************************************)
None == <<"None">>

(***************************************************************************)
(* Characters and strings.                                                 *)
(***************************************************************************)
UpperLetters ==
    <<"A","B","C","D","E","F","G","H","I","J","K","L","M",
      "N","O","P","Q","R","S","T","U","V","W","X","Y","Z">>

LowerLetters ==
    <<"a","b","c","d","e","f","g","h","i","j","k","l","m",
      "n","o","p","q","r","s","t","u","v","w","x","y","z">>

Range(f) == {f[i] : i \in DOMAIN f}

\* The characters of the model are those of Latin-1 (U+0000 to U+00FF), the
\* characters a string of the module can hold; the classes below are the
\* ones Python gives them.

\* str.isdigit for one character: 0-9 and the superscripts 2, 3, 1
DigitChars ==
    {"0","1","2","3","4","5","6","7","8","9","²","³","¹"}

IsDigit(c) == c \in DigitChars

\* the characters str.strip() removes: U+0009 to U+000D, U+001C to U+001F,
\* the space, U+0085 and the no-break space
SpaceChars ==
    {"\t","\n","","\f","\r","",
     "","",""," ",""," "}

IsSpace(c) == c \in SpaceChars

\* the capital letters after Z, U+00C0 to U+00DE without the multiplication
\* sign, and the lower-case letter of each
UpperLatin ==
    <<"À","Á","Â","Ã","Ä","Å","Æ","Ç","È","É",
      "Ê","Ë","Ì","Í","Î","Ï","Ð","Ñ","Ò","Ó",
      "Ô","Õ","Ö","Ø","Ù","Ú","Û","Ü","Ý","Þ">>

LowerLatin ==
    <<"à","á","â","ã","ä","å","æ","ç","è","é",
      "ê","ë","ì","í","î","ï","ð","ñ","ò","ó",
      "ô","õ","ö","ø","ù","ú","û","ü","ý","þ">>

\* the characters for which str.islower() holds that are the lower case of
\* no character of Latin-1
OtherLower == {"ª","µ","º","ß","ÿ"}

UpperSet == Range(UpperLetters) \cup Range(UpperLatin)
LowerSet == Range(LowerLetters) \cup Range(LowerLatin) \cup OtherLower

\* c.lower() # c, which for these characters is c.isupper()
IsUpperChar(c) == c \in UpperSet

\* c.islower()
IsLowerChar(c) == c \in LowerSet

\* the lower-case letter of each capital letter
LowerOf ==
    [c \in UpperSet |->
        IF c \in Range(UpperLetters)
        THEN LowerLetters[CHOOSE i \in DOMAIN UpperLetters : UpperLetters[i] = c]
        ELSE LowerLatin[CHOOSE i \in DOMAIN UpperLatin : UpperLatin[i] = c]]

\* str.lower for one character
LowerChar(c) == IF IsUpperChar(c) THEN LowerOf[c] ELSE c

\* str.lower
Lower(s) == [i \in 1..Len(s) |-> LowerChar(s[i])]

\* any(c.isdigit() for c in s)
HasDigit(s) == \E i \in 1..Len(s) : IsDigit(s[i])

\* str.lstrip and str.rstrip
RECURSIVE LStrip(_)
LStrip(s) == IF s # <<>> /\ IsSpace(Head(s)) THEN LStrip(Tail(s)) ELSE s

RECURSIVE RStrip(_)
RStrip(s) ==
    IF s # <<>> /\ IsSpace(s[Len(s)]) THEN RStrip(SubSeq(s, 1, Len(s) - 1)) ELSE s

\* str.strip
Strip(s) == RStrip(LStrip(s))

\* the positions at which old occurs in s
Occurrences(s, old) ==
    {i \in 1..(Len(s) - Len(old) + 1) : SubSeq(s, i, i + Len(old) - 1) = old}

\* s.replace(old, new, 1), for a non-empty old
ReplaceFirst(s, old, new) ==
    LET occ == Occurrences(s, old)
    IN  IF occ = {} THEN s
        ELSE LET i == CHOOSE k \in occ : \A j \in occ : k <= j
             IN  SubSeq(s, 1, i - 1) \o new \o SubSeq(s, i + Len(old), Len(s))

\* s.replace('_', ' ')
UnderscoresToSpaces(s) == [i \in 1..Len(s) |-> IF s[i] = "_" THEN " " ELSE s[i]]

\* chr(n), for the codes of the capital letters
Chr(n) == UpperLetters[n - 64]

\* the blank marker of line 65
Blank == <<"_","_","_","_","_","_","_">>

\* list(S) of a set S: the order in which a set of strings is iterated
\* depends on the hash seed of the process, so every order is possible
RECURSIVE ListsOfSet(_)
ListsOfSet(S) ==
    IF S = {} THEN {<<>>}
    ELSE UNION {{<<x>> \o l : l \in ListsOfSet(S \ {x})} : x \in S}

\* xs[:n]
Take(xs, n) == SubSeq(xs, 1, IF Len(xs) < n THEN Len(xs) ELSE n)

(***************************************************************************)
(* The spaCy pipeline (nlp).  A parse is a sequence of sentences, each a   *)
(* sequence of tokens; a token has its text, its part-of-speech tag and    *)
(* the whitespace that follows it.                                         *)
(***************************************************************************)
T(t, p, w) == [text |-> t, pos |-> p, ws |-> w]

RECURSIVE Flatten(_)
Flatten(ss) == IF ss = <<>> THEN <<>> ELSE Head(ss) \o Flatten(Tail(ss))

\* Token.text_with_ws
TextWithWs(tok) == tok.text \o tok.ws

\* Span.text: the tokens' text, without the whitespace after the last token
SpanText(toks) ==
    Flatten([i \in 1..Len(toks) |->
                IF i < Len(toks) THEN TextWithWs(toks[i]) ELSE toks[i].text])

\* Doc.text
DocText(doc) ==
    Flatten([i \in 1..Len(doc) |->
                Flatten([j \in 1..Len(doc[i]) |-> TextWithWs(doc[i][j])])])

\* n copies of a token sequence
RECURSIVE Repeat(_, _)
Repeat(toks, n) == IF n = 0 THEN <<>> ELSE toks \o Repeat(toks, n - 1)

\* The cat sat on the mat.
SentCatMat ==
    <<T(<<"T","h","e">>, "DET", <<" ">>),
      T(<<"c","a","t">>, "NOUN", <<" ">>),
      T(<<"s","a","t">>, "VERB", <<" ">>),
      T(<<"o","n">>, "ADP", <<" ">>),
      T(<<"t","h","e">>, "DET", <<" ">>),
      T(<<"m","a","t">>, "NOUN", <<>>),
      T(<<".">>, "PUNCT", <<" ">>)>>

\* The dog ran in the park.
SentDogPark ==
    <<T(<<"T","h","e">>, "DET", <<" ">>),
      T(<<"d","o","g">>, "NOUN", <<" ">>),
      T(<<"r","a","n">>, "VERB", <<" ">>),
      T(<<"i","n">>, "ADP", <<" ">>),
      T(<<"t","h","e">>, "DET", <<" ">>),
      T(<<"p","a","r","k">>, "NOUN", <<>>),
      T(<<".">>, "PUNCT", <<>>)>>

\* The dog chased the ball.
SentDogBall ==
    <<T(<<"T","h","e">>, "DET", <<" ">>),
      T(<<"d","o","g">>, "NOUN", <<" ">>),
      T(<<"c","h","a","s","e","d">>, "VERB", <<" ">>),
      T(<<"t","h","e">>, "DET", <<" ">>),
      T(<<"b","a","l","l">>, "NOUN", <<>>),
      T(<<".">>, "PUNCT", <<>>)>>

\* In 1990, the treaty was signed.
SentTreaty1990 ==
    <<T(<<"I","n">>, "ADP", <<" ">>),
      T(<<"1","9","9","0">>, "NUM", <<>>),
      T(<<",">>, "PUNCT", <<" ">>),
      T(<<"t","h","e">>, "DET", <<" ">>),
      T(<<"t","r","e","a","t","y">>, "NOUN", <<" ">>),
      T(<<"w","a","s">>, "AUX", <<" ">>),
      T(<<"s","i","g","n","e","d">>, "VERB", <<>>),
      T(<<".">>, "PUNCT", <<" ">>)>>

\* The senate approved the treaty.
SentSenate ==
    <<T(<<"T","h","e">>, "DET", <<" ">>),
      T(<<"s","e","n","a","t","e">>, "NOUN", <<" ">>),
      T(<<"a","p","p","r","o","v","e","d">>, "VERB", <<" ">>),
      T(<<"t","h","e">>, "DET", <<" ">>),
      T(<<"t","r","e","a","t","y">>, "NOUN", <<>>),
      T(<<".">>, "PUNCT", <<" ">>)>>

\* The cat is big.
SentCatBig ==
    <<T(<<"T","h","e">>, "DET", <<" ">>),
      T(<<"c","a","t">>, "NOUN", <<" ">>),
      T(<<"i","s">>, "AUX", <<" ">>),
      T(<<"b","i","g">>, "ADJ", <<>>),
      T(<<".">>, "PUNCT", <<" ">>)>>

\* "The cat is big." followed by a carriage return, a line feed, a form
\* feed and a no-break space: 15 characters when stripped
SentCatBigCr ==
    <<T(<<"T","h","e">>, "DET", <<" ">>),
      T(<<"c","a","t">>, "NOUN", <<" ">>),
      T(<<"i","s">>, "AUX", <<" ">>),
      T(<<"b","i","g">>, "ADJ", <<>>),
      T(<<".">>, "PUNCT", <<>>),
      T(<<"\r","\n","\f"," ">>, "SPACE", <<>>)>>

\* The area is m² wide.
SentAreaSq ==
    <<T(<<"T","h","e">>, "DET", <<" ">>),
      T(<<"a","r","e","a">>, "NOUN", <<" ">>),
      T(<<"i","s">>, "AUX", <<" ">>),
      T(<<"m","²">>, "NOUN", <<" ">>),
      T(<<"w","i","d","e">>, "ADJ", <<>>),
      T(<<".">>, "PUNCT", <<" ">>)>>

\* The École and the école saw the cat on the mat.
SentEcole ==
    <<T(<<"T","h","e">>, "DET", <<" ">>),
      T(<<"É","c","o","l","e">>, "PROPN", <<" ">>),
      T(<<"a","n","d">>, "CCONJ", <<" ">>),
      T(<<"t","h","e">>, "DET", <<" ">>),
      T(<<"é","c","o","l","e">>, "NOUN", <<" ">>),
      T(<<"s","a","w">>, "VERB", <<" ">>),
      T(<<"t","h","e">>, "DET", <<" ">>),
      T(<<"c","a","t">>, "NOUN", <<" ">>),
      T(<<"o","n">>, "ADP", <<" ">>),
      T(<<"t","h","e">>, "DET", <<" ">>),
      T(<<"m","a","t">>, "NOUN", <<>>),
      T(<<".">>, "PUNCT", <<>>)>>

\* They ran quickly away.
SentRan ==
    <<T(<<"T","h","e","y">>, "PRON", <<" ">>),
      T(<<"r","a","n">>, "VERB", <<" ">>),
      T(<<"q","u","i","c","k","l","y">>, "ADV", <<" ">>),
      T(<<"a","w","a","y">>, "ADV", <<>>),
      T(<<".">>, "PUNCT", <<>>)>>

\* The cat saw the Cat there.
SentCatCat ==
    <<T(<<"T","h","e">>, "DET", <<" ">>),
      T(<<"c","a","t">>, "NOUN", <<" ">>),
      T(<<"s","a","w">>, "VERB", <<" ">>),
      T(<<"t","h","e">>, "DET", <<" ">>),
      T(<<"C","a","t">>, "PROPN", <<" ">>),
      T(<<"t","h","e","r","e">>, "ADV", <<>>),
      T(<<".">>, "PUNCT", <<>>)>>

\* Let x denote the cat today.
SentLetX ==
    <<T(<<"L","e","t">>, "VERB", <<" ">>),
      T(<<"x">>, "NOUN", <<" ">>),
      T(<<"d","e","n","o","t","e">>, "VERB", <<" ">>),
      T(<<"t","h","e">>, "DET", <<" ">>),
      T(<<"c","a","t">>, "NOUN", <<" ">>),
      T(<<"t","o","d","a","y">>, "ADV", <<>>),
      T(<<".">>, "PUNCT", <<>>)>>

\* The cat is very big.
SentCatVeryBig ==
    <<T(<<"T","h","e">>, "DET", <<" ">>),
      T(<<"c","a","t">>, "NOUN", <<" ">>),
      T(<<"i","s">>, "AUX", <<" ">>),
      T(<<"v","e","r","y">>, "ADV", <<" ">>),
      T(<<"b","i","g">>, "ADJ", <<>>),
      T(<<".">>, "PUNCT", <<>>)>>

\* The ox pulled the cart.
SentOxCart ==
    <<T(<<"T","h","e">>, "DET", <<" ">>),
      T(<<"o","x">>, "NOUN", <<" ">>),
      T(<<"p","u","l","l","e","d">>, "VERB", <<" ">>),
      T(<<"t","h","e">>, "DET", <<" ">>),
      T(<<"c","a","r","t">>, "NOUN", <<>>),
      T(<<".">>, "PUNCT", <<>>)>>

\* A caterpillar saw the cat.
SentCaterpillar ==
    <<T(<<"A">>, "DET", <<" ">>),
      T(<<"c","a","t","e","r","p","i","l","l","a","r">>, "NOUN", <<" ">>),
      T(<<"s","a","w">>, "VERB", <<" ">>),
      T(<<"t","h","e">>, "DET", <<" ">>),
      T(<<"c","a","t">>, "NOUN", <<>>),
      T(<<".">>, "PUNCT", <<>>)>>

\* "The treaty was very very ... very large.": 201 characters
SentLong ==
    <<T(<<"T","h","e">>, "DET", <<" ">>),
      T(<<"t","r","e","a","t","y">>, "NOUN", <<" ">>),
      T(<<"w","a","s">>, "AUX", <<" ">>)>>
    \o Repeat(<<T(<<"v","e","r","y">>, "ADV", <<" ">>)>>, 36)
    \o <<T(<<"l","a","r","g","e">>, "ADJ", <<>>),
         T(<<".">>, "PUNCT", <<>>)>>

\* "It was very very ... very large. ", with n times very: no noun
Pad(n) ==
    <<T(<<"I","t">>, "PRON", <<" ">>),
      T(<<"w","a","s">>, "AUX", <<" ">>)>>
    \o Repeat(<<T(<<"v","e","r","y">>, "ADV", <<" ">>)>>, n)
    \o <<T(<<"l","a","r","g","e">>, "ADJ", <<>>),
         T(<<".">>, "PUNCT", <<" ">>)>>

\* 203 characters when stripped
SentPad == Pad(38)

\* 78 characters when stripped, 16 of them spaces
SentPadShort == Pad(13)

W_cat == <<"c","a","t">>
W_mat == <<"m","a","t">>
W_dog == <<"d","o","g">>
W_park == <<"p","a","r","k">>
W_ball == <<"b","a","l","l">>
W_treaty == <<"t","r","e","a","t","y">>
W_x == <<"x">>
W_ox == <<"o","x">>
W_cart == <<"c","a","r","t">>
W_caterpillar == <<"c","a","t","e","r","p","i","l","l","a","r">>

(***************************************************************************)
(* WordNet: for a word, its synsets, each a sequence of lemma names.       *)
(***************************************************************************)
NoEntries == <<>>

DogBallEntries ==
    <<[word |-> W_dog,
       synsets |-> << <<W_dog, <<"d","o","m","e","s","t","i","c","_","d","o","g">>,
                        <<"h","o","u","n","d">> >>,
                      << <<"D","o","g">>, <<"p","o","o","c","h">> >> >>],
      [word |-> W_ball,
       synsets |-> << <<W_ball, <<"g","l","o","b","e">> >> >>]>>

TreatyEntries ==
    <<[word |-> W_treaty,
       synsets |-> << <<W_treaty, <<"p","a","c","t">>, <<"a","c","c","o","r","d">> >> >>]>>

LetXEntries ==
    <<[word |-> W_x,
       synsets |-> << <<W_x, <<"t","e","n">> >>, << <<"e","x">> >> >>],
      [word |-> W_cat,
       synsets |-> << <<W_cat, <<"k","i","t","t","y">>, <<"f","e","l","i","n","e">> >> >>]>>

\* seven lemma names for cat besides cat itself
CatManyEntries ==
    <<[word |-> W_cat,
       synsets |-> << <<W_cat, <<"k","i","t","t","y">>, <<"f","e","l","i","n","e">>,
                        <<"p","u","s","s">>, <<"t","a","b","b","y">> >>,
                      << <<"m","o","g","g","y">>, <<"k","i","t","t","e","n">>,
                         <<"t","o","m","c","a","t">> >> >>]>>

OxCartEntries ==
    <<[word |-> W_ox,
       synsets |-> << <<W_ox, <<"b","u","l","l">>, <<"s","t","e","e","r">>,
                        <<"b","i","s","o","n">> >> >>],
      [word |-> W_cart,
       synsets |-> << <<W_cart, <<"w","a","g","o","n">> >> >>]>>

EcoleEntries ==
    <<[word |-> W_cat,
       synsets |-> << <<W_cat, <<"k","i","t","t","y">> >> >>]>>

(***************************************************************************)
(* The vocabulary (nlp.vocab): lexemes in the order of iteration.  similar *)
(* is the set of words whose similarity with the lexeme exceeds 0.5.       *)
(***************************************************************************)
NoVocab == <<>>

BallVocab ==
    <<[text |-> <<"s","p","h","e","r","e">>, has_vector |-> TRUE, similar |-> {W_ball}],
      [text |-> <<"G","l","o","b","e">>, has_vector |-> TRUE, similar |-> {W_ball}],
      [text |-> <<"b","e","a","d">>, has_vector |-> FALSE, similar |-> {W_ball}],
      [text |-> <<"o","r","b","2">>, has_vector |-> TRUE, similar |-> {W_ball}],
      [text |-> <<"g","l","o","b","e">>, has_vector |-> TRUE, similar |-> {W_ball}],
      [text |-> <<"p","u","p","p","y">>, has_vector |-> TRUE, similar |-> {}]>>

EcoleVocab ==
    <<[text |-> <<"P","R","É">>, has_vector |-> TRUE, similar |-> {W_mat}],
      [text |-> <<"p","r","é">>, has_vector |-> TRUE, similar |-> {W_mat}]>>

(***************************************************************************)
(* The runs that are explored: a parse (the text is the text it parses),   *)
(* the lemma table, the vocabulary and the question counts.                *)
(***************************************************************************)
Counts == 0..MaxTarget

Run(doc, entries, ok, vocab, counts) ==
    [text |-> DocText(doc), doc |-> doc, vocab |-> vocab,
     wordnet |-> [ok |-> ok, entries |-> entries], counts |-> counts]

\* "The cat sat on the mat. The dog ran in the park.", one question, no alternatives
CatDogRun == Run(<<SentCatMat, SentDogPark>>, NoEntries, TRUE, NoVocab, {1})

\* "The cat is very big.", one question, seven synonyms of cat
ManySynonymsRun == Run(<<SentCatVeryBig>>, CatManyEntries, TRUE, NoVocab, {1})

Runs ==
    { CatDogRun,
      Run(<<SentDogBall>>, DogBallEntries, TRUE, BallVocab, Counts),
      Run(<<SentDogBall>>, DogBallEntries, FALSE, BallVocab, Counts),
      Run(<<SentTreaty1990, SentSenate>>, TreatyEntries, TRUE, NoVocab, Counts),
      Run(<<SentCatBig, SentLong>>, TreatyEntries, TRUE, NoVocab, Counts),
      Run(<<SentCatMat, SentRan>>, NoEntries, TRUE, NoVocab, Counts),
      Run(<<SentCatCat>>, NoEntries, TRUE, NoVocab, Counts),
      Run(<<SentLetX>>, LetXEntries, TRUE, NoVocab, Counts),
      Run(<<SentCatBig>>, NoEntries, TRUE, NoVocab, Counts),
      Run(<<SentOxCart>>, OxCartEntries, TRUE, NoVocab, {1}),
      Run(<<SentAreaSq, SentCatBigCr>>, NoEntries, TRUE, NoVocab, Counts),
      Run(<<SentEcole>>, EcoleEntries, TRUE, EcoleVocab, {1}),
      Run(<<SentCaterpillar>>, LetXEntries, TRUE, NoVocab, {1}),
      Run(<<>>, NoEntries, TRUE, NoVocab, Counts),
      [Run(<<>>, NoEntries, TRUE, NoVocab, Counts) EXCEPT !.text = None] }

(***************************************************************************)
(* What the code asks of its collaborators.                                *)
(***************************************************************************)
\* doc.sents of nlp(text) (line 43)
Sents == nlp.doc

\* nlp(s), as its sequence of tokens: of the text (line 80) or of one of
\* its stripped sentences (line 59)
Tokens(s) ==
    IF s = text THEN Flatten(nlp.doc)
    ELSE LET hits == {i \in DOMAIN nlp.doc : Strip(SpanText(nlp.doc[i])) = s}
         IN  IF hits = {} THEN <<>> ELSE nlp.doc[CHOOSE i \in hits : TRUE]

\* t.pos_ in ["NOUN", "PROPN"] (lines 60, 81)
IsNounTag(tok) == tok.pos \in {"NOUN", "PROPN"}

\* [t.text for t in toks]
Texts(toks) == [i \in 1..Len(toks) |-> toks[i].text]

\* Lexeme.is_alpha and Lexeme.is_lower (line 72)
IsAlpha(s) == s # <<>> /\ \A i \in 1..Len(s) : IsUpperChar(s[i]) \/ IsLowerChar(s[i])
IsLowerStr(s) ==
    /\ \E i \in 1..Len(s) : IsLowerChar(s[i])
    /\ \A i \in 1..Len(s) : ~IsUpperChar(s[i])

\* wordnet.synsets(word)
Synsets(word) ==
    LET hits == {i \in DOMAIN wordnet.entries : wordnet.entries[i].word = Lower(word)}
    IN  IF hits = {} THEN <<>> ELSE wordnet.entries[CHOOSE i \in hits : TRUE].synsets

\* get_synonyms (lines 30-37): the lists it can return
get_synonyms(word) ==
    LET names == {UnderscoresToSpaces(l) : l \in Range(Flatten(Synsets(word)))}
    IN  ListsOfSet({s \in names : Lower(s) # Lower(word)})

\* similar_words (lines 70-74)
SimilarWords(subj) ==
    Take(Texts(SelectSeq(nlp.vocab,
                 LAMBDA t : /\ IsAlpha(t.text) /\ t.has_vector /\ IsLowerStr(t.text)
                            /\ subj \in t.similar)), 3)

(***************************************************************************)
(* The pure steps of generate_mcqs.                                        *)
(***************************************************************************)
\* line 46 without the test for digits
IsCandidateDigitsAllowed(s) == 15 < Len(s) /\ Len(s) <= 200

\* line 46 with the lower limit included
IsCandidateFrom15(s) == 15 <= Len(s) /\ Len(s) <= 200 /\ ~HasDigit(s)

\* the filter of line 46
IsCandidate(s) == 15 < Len(s) /\ Len(s) <= 200 /\ ~HasDigit(s)

\* lines 44-47
CandidateSentences ==
    SelectSeq([i \in 1..Len(Sents) |-> Strip(SpanText(Sents[i]))], IsCandidate)

\* line 53
MaxAttempts(n) == n * 20

\* line 56 with both limits included
LoopConditionInclusive == Len(mcqs) <= num_questions /\ attempts <= max_attempts

\* the loop condition of line 56
LoopCondition == Len(mcqs) < num_questions /\ attempts < max_attempts

\* line 60
SentenceNouns(s) == Texts(SelectSeq(Tokens(s), IsNounTag))

\* line 65
QuestionStem(s, subj) == ReplaceFirst(s, subj, Blank)

\* line 66 with the pair in the other order
AlreadyGeneratedSwapped(stem, subj) == <<subj, stem>> \in generated_questions

\* line 66
AlreadyGenerated(stem, subj) == <<stem, subj>> \in generated_questions

\* set(synonyms + similar_words) of line 76
DistractorSet(subj) ==
    UNION {Range(synonyms \o SimilarWords(subj)) : synonyms \in get_synonyms(subj)}

\* lines 76-77: the lists that can be left in distractors
BaseDistractors(subj) ==
    {SelectSeq(ds, LAMBDA d : Lower(d) # Lower(subj)) :
        ds \in ListsOfSet(DistractorSet(subj))}

\* lines 79-84
RemainingNouns(subj, ds) ==
    Texts(SelectSeq(Tokens(text),
            LAMBDA t : /\ IsNounTag(t)
                       /\ Lower(t.text) # Lower(subj)
                       /\ Lower(t.text) \notin {Lower(ds[i]) : i \in DOMAIN ds}))

\* line 85 with the limit included
BackfillConditionInclusive == Len(distractors) <= 3 /\ remaining_nouns # <<>>

\* the loop condition of line 85
BackfillCondition == Len(distractors) < 3 /\ remaining_nouns # <<>>

\* random.sample(ds, 3): the triples of distinct positions of ds
Samples(ds) ==
    {s \in [1..3 -> DOMAIN ds] : \A i, j \in 1..3 : i # j => s[i] # s[j]}

\* random.shuffle of four entries: the permutations of the positions
Shuffles == {p \in [1..4 -> 1..4] : \A i, j \in 1..4 : i # j => p[i] # p[j]}

\* lines 91-92, for one sample and one shuffle
Choices(subj, ds, s, p) ==
    LET picked == <<subj, ds[s[1]], ds[s[2]], ds[s[3]]>>
    IN  [i \in 1..4 |-> picked[p[i]]]

\* the shuffles that keep the three sampled distractors in their order and
\* only place the subject
Placements == {p \in Shuffles : \A i, j \in 1..4 : (i < j /\ p[i] > 1 /\ p[j] > 1) => p[i] < p[j]}

\* lines 91-92: the lists that sampling and shuffling can leave in choices.
\* A sample comes in every order of its three words, so the shuffles that
\* only place the subject already give every list.
PossibleChoices(subj, ds) ==
    {Choices(subj, ds, s, p) : s \in Samples(ds), p \in Placements}

\* line 95 with only empty choices counted
HasTrivialChoiceEmptyOnly(cs) == \E i \in DOMAIN cs : Len(cs[i]) < 1

\* line 95
HasTrivialChoice(cs) == \E i \in DOMAIN cs : Len(cs[i]) <= 1

\* line 97 counting the list of choices instead of the set
HasCollisionNoSet(cs) == Len([i \in DOMAIN cs |-> Lower(cs[i])]) < 4

\* line 97 with the threshold one too low
HasCollisionOffByOne(cs) == Cardinality({Lower(cs[i]) : i \in DOMAIN cs}) < 3

\* line 97
HasCollision(cs) == Cardinality({Lower(cs[i]) : i \in DOMAIN cs}) < 4

\* list.index(x): the first position of x, counted from 0
Index(cs, x) ==
    (CHOOSE i \in DOMAIN cs : cs[i] = x /\ \A j \in DOMAIN cs : cs[j] = x => i <= j) - 1

\* line 101 with the letters counted from position 1
CorrectLetterOneBased(cs, subj) == Chr(65 + Index(cs, subj) + 1)

\* line 101
CorrectLetter(cs, subj) == Chr(65 + Index(cs, subj))

\* lines 102-107
Mcq(stem, cs, subj) ==
    [question |-> stem, choices |-> cs,
     answer |-> CorrectLetter(cs, subj), answer_text |-> subj]

(***************************************************************************)
(* The state of a session when its first run of the script starts.         *)
(***************************************************************************)
\* lines 215-226
InitialSession ==
    [page |-> "home", mcqs |-> <<>>, current_q |-> 0, score |-> 0,
     answers |-> <<>>, answered |-> FALSE]

(***************************************************************************)
(* The call.  pc is its position: "start" (line 40), "loop" (line 56),     *)
(* "subject" (line 64), "dedup" (line 66), "backfill" (line 85); the       *)
(* return statement that ended it, "return41", "return49" or "return110";  *)
(* or "raised", when an exception left it.                                 *)
(***************************************************************************)
InitOf(runs) ==
    /\ \E r \in runs :
        /\ text = r.text
        /\ nlp = [doc |-> r.doc, vocab |-> r.vocab]
        /\ wordnet = r.wordnet
        /\ num_questions \in r.counts
    /\ pc = "start"
    /\ sentences = None
    /\ generated_questions = None
    /\ mcqs = None
    /\ max_attempts = None
    /\ attempts = None
    /\ sentence = None
    /\ nouns = None
    /\ subject = None
    /\ question_stem = None
    /\ distractors = None
    /\ remaining_nouns = None
    /\ returned = None
    /\ session_state = InitialSession
    /\ st_error = <<>>
    /\ rerun = FALSE

Init == InitOf(Runs)

Caller == <<session_state, st_error, rerun>>
Inputs == <<text, nlp, wordnet, num_questions>>
LoopState == <<sentences, generated_questions, mcqs, max_attempts, attempts>>
Locals == <<sentence, nouns, subject, question_stem, distractors, remaining_nouns>>

\* The locals of an iteration are dead at the head of the loop: each is
\* assigned again before it is read.
NextIteration ==
    /\ pc' = "loop"
    /\ sentence' = None
    /\ nouns' = None
    /\ subject' = None
    /\ question_stem' = None
    /\ distractors' = None
    /\ remaining_nouns' = None

\* lines 40-41
ReturnNoText ==
    /\ pc = "start"
    /\ text = None \/ text = <<>>
    /\ returned' = <<>>
    /\ pc' = "return41"
    /\ UNCHANGED <<Caller, Inputs, LoopState, Locals>>

\* lines 43-49
ReturnNoSentences ==
    /\ pc = "start"
    /\ ~(text = None \/ text = <<>>)
    /\ CandidateSentences = <<>>
    /\ sentences' = CandidateSentences
    /\ returned' = <<>>
    /\ pc' = "return49"
    /\ UNCHANGED <<Caller, Inputs, generated_questions, mcqs, max_attempts, attempts, Locals>>

\* lines 43-54
EnterLoop ==
    /\ pc = "start"
    /\ ~(text = None \/ text = <<>>)
    /\ CandidateSentences # <<>>
    /\ sentences' = CandidateSentences
    /\ generated_questions' = {}
    /\ mcqs' = <<>>
    /\ max_attempts' = MaxAttempts(num_questions)
    /\ attempts' = 0
    /\ pc' = "loop"
    /\ UNCHANGED <<Caller, Inputs, Locals, returned>>

\* lines 56, 110
ReturnMcqs ==
    /\ pc = "loop"
    /\ ~LoopCondition
    /\ returned' = mcqs
    /\ pc' = "return110"
    /\ UNCHANGED <<Caller, Inputs, LoopState, Locals>>

\* lines 56-62, a sentence without nouns
SkipNoNouns ==
    /\ pc = "loop"
    /\ LoopCondition
    /\ attempts' = attempts + 1
    /\ \E i \in DOMAIN sentences : SentenceNouns(sentences[i]) = <<>>
    /\ NextIteration
    /\ UNCHANGED <<Caller, Inputs, sentences, generated_questions, mcqs, max_attempts, returned>>

\* lines 56-60, a sentence with nouns
SelectSentence ==
    /\ pc = "loop"
    /\ LoopCondition
    /\ attempts' = attempts + 1
    /\ \E i \in DOMAIN sentences :
        /\ SentenceNouns(sentences[i]) # <<>>
        /\ sentence' = sentences[i]
        /\ nouns' = SentenceNouns(sentences[i])
    /\ pc' = "subject"
    /\ UNCHANGED <<Caller, Inputs, sentences, generated_questions, mcqs, max_attempts,
                   subject, question_stem, distractors, remaining_nouns, returned>>

\* lines 64-65
SelectSubject ==
    /\ pc = "subject"
    /\ \E i \in DOMAIN nouns :
        /\ subject' = nouns[i]
        /\ question_stem' = QuestionStem(sentence, nouns[i])
    /\ pc' = "dedup"
    /\ UNCHANGED <<Caller, Inputs, LoopState, sentence, nouns, distractors, remaining_nouns,
                   returned>>

\* lines 66-67
SkipDuplicate ==
    /\ pc = "dedup"
    /\ AlreadyGenerated(question_stem, subject)
    /\ NextIteration
    /\ UNCHANGED <<Caller, Inputs, LoopState, returned>>

\* line 69 when wordnet.synsets raises LookupError (the corpus is missing):
\* neither get_synonyms nor generate_mcqs has a handler
LookupRaises ==
    /\ pc = "dedup"
    /\ ~AlreadyGenerated(question_stem, subject)
    /\ ~wordnet.ok
    /\ pc' = "raised"
    /\ UNCHANGED <<Caller, Inputs, LoopState, Locals, returned>>

\* lines 69-84
CollectDistractors ==
    /\ pc = "dedup"
    /\ ~AlreadyGenerated(question_stem, subject)
    /\ wordnet.ok
    /\ \E ds \in BaseDistractors(subject) :
        /\ distractors' = ds
        /\ remaining_nouns' = RemainingNouns(subject, ds)
    /\ pc' = "backfill"
    /\ UNCHANGED <<Caller, Inputs, LoopState, sentence, nouns, subject, question_stem, returned>>

\* lines 85-86
Backfill ==
    /\ pc = "backfill"
    /\ BackfillCondition
    /\ \E i \in DOMAIN remaining_nouns :
        distractors' = Append(distractors, remaining_nouns[i])
    /\ UNCHANGED <<Caller, Inputs, LoopState, pc, sentence, nouns, subject, question_stem,
                   remaining_nouns, returned>>

\* lines 88-89
SkipTooFewDistractors ==
    /\ pc = "backfill"
    /\ ~BackfillCondition
    /\ Len(distractors) < 3
    /\ NextIteration
    /\ UNCHANGED <<Caller, Inputs, LoopState, returned>>

\* lines 95-96, for the list cs that sampling and shuffling left in choices
SkipTrivialChoice(cs) ==
    /\ HasTrivialChoice(cs)
    /\ NextIteration
    /\ UNCHANGED <<Caller, Inputs, LoopState, returned>>

\* lines 97-98
SkipCollision(cs) ==
    /\ ~HasTrivialChoice(cs)
    /\ HasCollision(cs)
    /\ NextIteration
    /\ UNCHANGED <<Caller, Inputs, LoopState, returned>>

\* lines 100-108
EmitMcq(cs) ==
    /\ ~HasTrivialChoice(cs)
    /\ ~HasCollision(cs)
    /\ mcqs' = Append(mcqs, Mcq(question_stem, cs, subject))
    /\ generated_questions' = generated_questions \cup {<<question_stem, subject>>}
    /\ NextIteration
    /\ UNCHANGED <<Caller, Inputs, sentences, max_attempts, attempts, returned>>

\* lines 91-108
FinishAttempt ==
    /\ pc = "backfill"
    /\ ~BackfillCondition
    /\ Len(distractors) >= 3
    /\ \E cs \in PossibleChoices(subject, distractors) :
        \/ SkipTrivialChoice(cs)
        \/ SkipCollision(cs)
        \/ EmitMcq(cs)

Next ==
    \/ ReturnNoText
    \/ ReturnNoSentences
    \/ EnterLoop
    \/ ReturnMcqs
    \/ SkipNoNouns
    \/ SelectSentence
    \/ SelectSubject
    \/ SkipDuplicate
    \/ LookupRaises
    \/ CollectDistractors
    \/ Backfill
    \/ SkipTooFewDistractors
    \/ FinishAttempt

Spec == Init /\ [][Next]_vars

(***************************************************************************)
(* The call for a word with seven synonyms.  The 5040 orders of its list   *)
(* of distractors are explored apart from the other runs; these are the    *)
(* steps such a call can take.                                             *)
(***************************************************************************)
ManySynonymsInit == InitOf({ManySynonymsRun})

ManySynonymsNext ==
    \/ EnterLoop
    \/ ReturnMcqs
    \/ SelectSentence
    \/ SelectSubject
    \/ CollectDistractors
    \/ FinishAttempt

ManySynonyms == ManySynonymsInit /\ [][ManySynonymsNext]_vars

(***************************************************************************)
(* The session.  An action is one run of the script (lines 215-396) on the *)
(* page that st.session_state.page names: the run a button starts, or a    *)
(* run in which no button is true (the one st.rerun() starts, or the one   *)
(* Streamlit starts when the user changes another widget or asks for a     *)
(* rerun).  The run of the Generate button is split at the call of         *)
(* generate_mcqs: pc is "idle" between the runs and the position inside    *)
(* generate_mcqs while that run is in the call.  st_error is the sequence  *)
(* of the calls of st.error the last run made, empty when it made none; a  *)
(* call is the line of the call, which fixes the text of its message, and  *)
(* the values that line formats into the message.  rerun tells that the    *)
(* last run ended in st.rerun(), so that the next run starts with no       *)
(* button true.                                                            *)
(***************************************************************************)
\* the files a user uploads: what extract_pdf_text gives for the file (a
\* text, or None when pdfplumber fails), and the parse, the vocabulary and
\* the lemma table for that text
Uploads ==
    { Run(<<SentPad, SentDogBall>>, DogBallEntries, TRUE, BallVocab, 1..MaxTarget),
      Run(<<SentPad, SentDogBall>>, DogBallEntries, FALSE, BallVocab, 1..MaxTarget),
      Run(<<SentDogBall>>, DogBallEntries, TRUE, BallVocab, 1..MaxTarget),
      Run(<<SentPad, SentCatBig>>, NoEntries, TRUE, NoVocab, 1..MaxTarget),
      Run(<<SentPad, SentCatMat, SentRan>>, NoEntries, TRUE, NoVocab, 1..MaxTarget),
      Run(<<SentPad, SentCatCat>>, NoEntries, TRUE, NoVocab, 1..MaxTarget),
      Run(<<SentPad, SentLetX>>, LetXEntries, TRUE, NoVocab, 1..MaxTarget),
      Run(<<SentPadShort, SentOxCart>>, OxCartEntries, TRUE, NoVocab, {1}),
      Run(<<>>, NoEntries, TRUE, NoVocab, 1..MaxTarget),
      [Run(<<>>, NoEntries, TRUE, NoVocab, 1..MaxTarget) EXCEPT !.text = None] }

\* line 262 without the test of the length
NotEnoughTextOnlyMissing(t) == t = None \/ t = <<>>

\* line 262
NotEnoughText(t) == t = None \/ t = <<>> \/ Len(Strip(t)) < 100

\* line 292
QuizOver == session_state.current_q >= Len(session_state.mcqs)

\* line 314 with the buttons drawn whether or not the question is answered
ChoiceButtonsAlwaysShown == TRUE

\* line 314
ChoiceButtonsShown == ~session_state.answered

\* line 321
IsCorrect(selected, question) == selected = question.answer

\* lines 322-323 with the score raised for every answer
ScoreAfterAnyAnswer(score, is_correct) == score + 10

\* lines 322-323
ScoreAfter(score, is_correct) == IF is_correct THEN score + 10 ELSE score

\* lines 324-329
AnswerEntry(selected, question) ==
    [selected |-> selected, correct |-> question.answer,
     correct_text |-> question.answer_text,
     is_correct |-> IsCorrect(selected, question)]

\* line 384, for one key
ResetValue(key) ==
    IF key \in {"mcqs", "answers"} THEN <<>>
    ELSE IF key # "answered" THEN 0 ELSE FALSE

\* a call of st.error: the line of the call and the values formatted into
\* its message.  The messages, by line:
\*   252  "Please upload a PDF file first."
\*   263  "Couldn't extract enough text from this PDF. Try a different file."
\*   267  "Couldn't generate questions. The PDF may not have enough clear
\*         sentences."
\*   338  the cross mark U+274C, then " Wrong! The correct answer was **",
\*        last['correct_text'], "** (", last['correct'], ")"
StError(line, args) == [line |-> line, args |-> args]

\* lines 334-338: the calls of st.error while the feedback is shown: none
\* after a right answer (line 336 calls st.success), the call of line 338
\* with correct_text and correct of the last answer after a wrong one
Feedback ==
    LET last == session_state.answers[Len(session_state.answers)]
    IN  IF last.is_correct THEN <<>>
        ELSE <<StError(338, <<last.correct_text, last.correct>>)>>

SessionInit ==
    /\ session_state = InitialSession
    /\ st_error = <<>>
    /\ rerun = FALSE
    /\ pc = "idle"
    /\ text = None
    /\ nlp = None
    /\ wordnet = None
    /\ num_questions = None
    /\ sentences = None
    /\ generated_questions = None
    /\ mcqs = None
    /\ max_attempts = None
    /\ attempts = None
    /\ sentence = None
    /\ nouns = None
    /\ subject = None
    /\ question_stem = None
    /\ distractors = None
    /\ remaining_nouns = None
    /\ returned = None

\* the arguments, locals and result of generate_mcqs are gone when the run
\* of the script ends
EndRun ==
    /\ pc' = "idle"
    /\ text' = None
    /\ nlp' = None
    /\ wordnet' = None
    /\ num_questions' = None
    /\ sentences' = None
    /\ generated_questions' = None
    /\ mcqs' = None
    /\ max_attempts' = None
    /\ attempts' = None
    /\ sentence' = None
    /\ nouns' = None
    /\ subject' = None
    /\ question_stem' = None
    /\ distractors' = None
    /\ remaining_nouns' = None
    /\ returned' = None

OnPage(page) == pc = "idle" /\ session_state.page = page

\* st.button (lines 250, 319, 340, 382) is true only in the run that the
\* click of the button started, and st.rerun() (lines 275, 294, 331, 343,
\* 386) starts its run at once, before any click is handled: so no button
\* is true in the run that st.rerun() starts
Clicked(page) == OnPage(page) /\ ~rerun

\* lines 234-282 with the button of line 250 false: the run st.rerun() of
\* line 386 starts, or the one a change of the file or of the number starts
HomeShown ==
    /\ OnPage("home")
    /\ st_error' = <<>>
    /\ rerun' = FALSE
    /\ UNCHANGED <<session_state, Inputs, pc, LoopState, Locals, returned>>

\* lines 250-252: Generate Quiz without a file
GenerateWithoutFile ==
    /\ Clicked("home")
    /\ st_error' = <<StError(252, <<>>)>>
    /\ UNCHANGED <<session_state, rerun, Inputs, pc, LoopState, Locals, returned>>

\* lines 250-263: Generate Quiz, a file without enough text
GenerateNotEnoughText ==
    /\ Clicked("home")
    /\ \E u \in Uploads : NotEnoughText(u.text)
    /\ st_error' = <<StError(263, <<>>)>>
    /\ UNCHANGED <<session_state, rerun, Inputs, pc, LoopState, Locals, returned>>

\* lines 250-265: Generate Quiz, up to the call of generate_mcqs
GenerateCall ==
    /\ Clicked("home")
    /\ \E u \in Uploads :
        /\ ~NotEnoughText(u.text)
        /\ text' = u.text
        /\ nlp' = [doc |-> u.doc, vocab |-> u.vocab]
        /\ wordnet' = u.wordnet
        /\ num_questions' \in u.counts
    /\ pc' = "start"
    /\ st_error' = <<>>
    /\ UNCHANGED <<session_state, rerun, LoopState, Locals, returned>>

\* lines 266-267: the call returned no MCQ
GenerateNoQuestions ==
    /\ pc \in {"return41", "return49", "return110"}
    /\ session_state.page = "home"
    /\ returned = <<>>
    /\ st_error' = <<StError(267, <<>>)>>
    /\ EndRun
    /\ UNCHANGED <<session_state, rerun>>

\* lines 268-275: the call returned MCQs
GenerateQuiz ==
    /\ pc \in {"return41", "return49", "return110"}
    /\ session_state.page = "home"
    /\ returned # <<>>
    /\ session_state' =
          [session_state EXCEPT !.mcqs = returned, !.current_q = 0, !.score = 0,
                                !.answers = <<>>, !.answered = FALSE, !.page = "quiz"]
    /\ rerun' = TRUE
    /\ EndRun
    /\ UNCHANGED st_error

\* line 265 when generate_mcqs raises: the exception ends the run of the
\* script before line 266; the run has called no st.error and has set
\* nothing in st.session_state
GenerateRaised ==
    /\ pc = "raised"
    /\ session_state.page = "home"
    /\ EndRun
    /\ UNCHANGED <<session_state, st_error, rerun>>

\* lines 288-295
QuizFinished ==
    /\ OnPage("quiz")
    /\ QuizOver
    /\ session_state' = [session_state EXCEPT !.page = "results"]
    /\ st_error' = <<>>
    /\ rerun' = TRUE
    /\ UNCHANGED <<Inputs, pc, LoopState, Locals, returned>>

\* lines 288-319 with no button of line 319 true: the question and its
\* choices are shown
QuestionShown ==
    /\ OnPage("quiz")
    /\ ~QuizOver
    /\ ChoiceButtonsShown
    /\ st_error' = <<>>
    /\ rerun' = FALSE
    /\ UNCHANGED <<session_state, Inputs, pc, LoopState, Locals, returned>>

\* lines 314-331: the button of choice i (counted from 0)
ChooseAnswer ==
    /\ Clicked("quiz")
    /\ ~QuizOver
    /\ ChoiceButtonsShown
    /\ LET question == session_state.mcqs[session_state.current_q + 1]
       IN  \E i \in 0..(Len(question.choices) - 1) :
               LET selected == Chr(65 + i)
               IN  session_state' =
                       [session_state EXCEPT
                           !.score = ScoreAfter(@, IsCorrect(selected, question)),
                           !.answers = Append(@, AnswerEntry(selected, question)),
                           !.answered = TRUE]
    /\ st_error' = <<>>
    /\ rerun' = TRUE
    /\ UNCHANGED <<Inputs, pc, LoopState, Locals, returned>>

\* lines 288-340 with the button of line 340 false: the feedback on the
\* last answer is shown (the run st.rerun() of line 331 starts)
FeedbackShown ==
    /\ OnPage("quiz")
    /\ ~QuizOver
    /\ ~ChoiceButtonsShown
    /\ st_error' = Feedback
    /\ rerun' = FALSE
    /\ UNCHANGED <<session_state, Inputs, pc, LoopState, Locals, returned>>

\* lines 332-343: Next Question; the feedback of lines 334-338 is shown
\* before the button of line 340 is reached
NextQuestion ==
    /\ Clicked("quiz")
    /\ ~QuizOver
    /\ ~ChoiceButtonsShown
    /\ session_state' = [session_state EXCEPT !.current_q = @ + 1, !.answered = FALSE]
    /\ st_error' = Feedback
    /\ rerun' = TRUE
    /\ UNCHANGED <<Inputs, pc, LoopState, Locals, returned>>

\* lines 348-382 with the button of line 382 false: the run st.rerun() of
\* line 294 starts
ResultsShown ==
    /\ OnPage("results")
    /\ st_error' = <<>>
    /\ rerun' = FALSE
    /\ UNCHANGED <<session_state, Inputs, pc, LoopState, Locals, returned>>

\* lines 382-386: Try Another PDF
TryAnotherPdf ==
    /\ Clicked("results")
    /\ session_state' =
          [key \in DOMAIN session_state |->
              IF key \in {"mcqs", "current_q", "score", "answers", "answered"}
              THEN ResetValue(key) ELSE "home"]
    /\ st_error' = <<>>
    /\ rerun' = TRUE
    /\ UNCHANGED <<Inputs, pc, LoopState, Locals, returned>>

SessionNext ==
    \/ HomeShown
    \/ GenerateWithoutFile
    \/ GenerateNotEnoughText
    \/ GenerateCall
    \/ ReturnNoSentences
    \/ EnterLoop
    \/ ReturnMcqs
    \/ SkipNoNouns
    \/ SelectSentence
    \/ SelectSubject
    \/ SkipDuplicate
    \/ LookupRaises
    \/ CollectDistractors
    \/ Backfill
    \/ SkipTooFewDistractors
    \/ FinishAttempt
    \/ GenerateNoQuestions
    \/ GenerateQuiz
    \/ GenerateRaised
    \/ QuizFinished
    \/ QuestionShown
    \/ ChooseAnswer
    \/ FeedbackShown
    \/ NextQuestion
    \/ ResultsShown
    \/ TryAnotherPdf

Session == SessionInit /\ [][SessionNext]_vars

(***************************************************************************)
(* Vocabulary of the properties.                                           *)
(***************************************************************************)
\* the call returned
Returned == pc \in {"return41", "return49", "return110"}

\* the call is inside the attempt loop, or left it
InLoop == pc \in {"loop", "subject", "dedup", "backfill", "raised", "return110"}

\* the call is inside an attempt
InAttempt == pc \in {"subject", "dedup", "backfill"}

\* ord(c), for a capital letter
Ord(c) == 64 + (CHOOSE i \in DOMAIN UpperLetters : UpperLetters[i] = c)

\* the (question, answer_text) pair of an MCQ
PairOf(m) == <<m.question, m.answer_text>>

\* the call ended, by a return or by an exception
Finished == Returned \/ pc = "raised"

\* the number of distractors before backfill
BaseCount == Cardinality({d \in DistractorSet(subject) : Lower(d) # Lower(subject)})

\* the words that backfill appended in this attempt
Appended == Len(distractors) - BaseCount

\* the stripped sentences of the text that qualify as candidates
Qualifying ==
    {s \in {Strip(SpanText(nlp.doc[i])) : i \in DOMAIN nlp.doc} :
        /\ 15 < Len(s) /\ Len(s) <= 200
        /\ \A k \in 1..Len(s) : ~IsDigit(s[k])}

\* the nouns of the whole text, in lower case
DocumentNouns ==
    {Lower(t.text) : t \in {u \in Range(Flatten(nlp.doc)) : u.pos \in {"NOUN", "PROPN"}}}

\* no word has a synonym or a similar word
NoAlternatives == wordnet.ok /\ wordnet.entries = <<>> /\ nlp.vocab = <<>>

\* the nouns of "The cat sat on the mat. The dog ran in the park."
FourNouns == {W_cat, W_mat, W_dog, W_park}

\* a bound on the steps that are left
Rank ==
    IF pc = "start" THEN 8 * (num_questions * 20) + 2
    ELSE IF Finished THEN 0
    ELSE LET left == 8 * (num_questions * 20 - attempts)
         IN  IF pc = "loop" THEN left + 1
             ELSE IF pc = "subject" THEN left + 7
             ELSE IF pc = "dedup" THEN left + 6
             ELSE left + 2 + (IF Len(distractors) < 3 THEN 3 - Len(distractors) ELSE 0)

\* the texts of the noun and proper-noun tokens of the text
TaggedNouns ==
    {t.text : t \in {u \in Range(Flatten(nlp.doc)) : u.pos \in {"NOUN", "PROPN"}}}

\* an alphabetic word of more than 2 characters
IsPoolWord(w) ==
    /\ Len(w) > 2
    /\ \A i \in 1..Len(w) : w[i] \in UpperSet \cup LowerSet

\* toks with the first token whose text is w replaced by the blank marker
BlankFirstToken(toks, w) ==
    LET hits == {i \in DOMAIN toks : toks[i].text = w}
    IN  IF hits = {} THEN toks
        ELSE LET first == CHOOSE i \in hits : \A j \in hits : i <= j
             IN  [toks EXCEPT ![first].text = Blank]

\* what C1 asks of one MCQ
WellFormedChoices(m) ==
    LET lowered == [i \in DOMAIN m.choices |-> Lower(m.choices[i])]
    IN  /\ Len(m.choices) = 4
        /\ \A i, j \in DOMAIN m.choices : i # j => lowered[i] # lowered[j]
        /\ \A i \in DOMAIN m.choices : Len(m.choices[i]) > 1
        /\ Cardinality({i \in DOMAIN m.choices : m.choices[i] = m.answer_text}) = 1

\* what C4 asks of every state
C4_Bounds ==
    /\ InLoop => attempts \in 0..(num_questions * 20) /\ Len(mcqs) <= num_questions
    /\ InAttempt => attempts >= 1 /\ Len(mcqs) < num_questions
    /\ pc = "backfill" => Appended \in 0..3 /\ (Appended > 0 => Len(distractors) <= 3)
    /\ Returned => Len(returned) <= num_questions
    /\ pc = "loop" /\ LoopCondition => Len(sentences) >= 1
    /\ pc = "subject" => Len(nouns) >= 1
    /\ Rank >= 0


(***************************************************************************)
(* C1.  Every MCQ that generate_mcqs returns has exactly 4                 *)
(* choices, pairwise distinct without regard to case, each longer than one *)
(* character, and answer_text is exactly one of them.                      *)
(***************************************************************************)
C1_ChoicesWellFormed ==
    Returned => \A k \in DOMAIN returned : WellFormedChoices(returned[k])

\* a question was returned for the two-sentence text, whose distractors all
\* come from backfill, where repeated picks are possible
C1_Witness ==
    /\ pc = "return110"
    /\ text = CatDogRun.text
    /\ Len(returned) = 1

(***************************************************************************)
(* C2.  For every MCQ returned, the answer letter is one of A..D, and      *)
(* decoding it (A -> 0, B -> 1, ...) and reading that position of choices  *)
(* gives answer_text.                                                      *)
(***************************************************************************)
C2_LetterDecodesToAnswer ==
    Returned =>
        \A k \in DOMAIN returned :
            LET m == returned[k]
            IN  /\ m.answer \in {"A", "B", "C", "D"}
                /\ m.choices[(Ord(m.answer) - 65) + 1] = m.answer_text

\* two questions were returned, the answer of one first and of the other last
C2_Witness ==
    /\ pc = "return110"
    /\ Len(returned) = 2
    /\ returned[1].answer = "A"
    /\ returned[2].answer = "D"

(***************************************************************************)
(* C3.  For "The cat sat on the mat. The dog ran in the park.", one        *)
(* question asked and no lexical alternatives, every call returns exactly  *)
(* one MCQ, whose answer is one of cat, mat, dog, park and whose other     *)
(* choices are the three remaining nouns.                                  *)
(***************************************************************************)
C3_OneMcqFromBackfill ==
    (/\ Returned
     /\ text = CatDogRun.text
     /\ num_questions = 1
     /\ wordnet.ok /\ wordnet.entries = <<>> /\ nlp.vocab = <<>>)
    => /\ Len(returned) = 1
       /\ returned[1].answer_text \in FourNouns
       /\ Range(returned[1].choices) = FourNouns

(***************************************************************************)
(* C4.  generate_mcqs terminates: there are at most 20 attempts for each   *)
(* question asked, no attempt starts once the questions asked for are      *)
(* collected, backfill appends at most 3 words, at most num_questions MCQs *)
(* are returned, random.choice is never given an empty list, and every     *)
(* step brings the end of the call nearer.                                 *)
(***************************************************************************)
C4_Terminates == []C4_Bounds /\ [][Rank' < Rank]_vars

\* every one of the 40 attempts for two questions was used, the last one in
\* a backfill of three words
C4_Witness ==
    /\ pc = "backfill"
    /\ num_questions = 2
    /\ attempts = 40
    /\ Appended = 3

(***************************************************************************)
(* C5.  No two MCQs returned have the same (question, answer_text)         *)
(* pair: the set of produced pairs is empty when the loop is entered, it   *)
(* holds the pairs of the MCQs collected, and an attempt whose pair is in  *)
(* it goes no further than the test of line 66.                            *)
(***************************************************************************)
C5_NoDuplicatePairs ==
    /\ Returned =>
          \A i, j \in DOMAIN returned :
              i # j => PairOf(returned[i]) # PairOf(returned[j])
    /\ InLoop => generated_questions = {PairOf(mcqs[k]) : k \in DOMAIN mcqs}
    /\ pc = "backfill" => <<question_stem, subject>> \notin generated_questions

\* an attempt repeats the pair of the MCQ collected before
C5_Witness ==
    /\ pc = "dedup"
    /\ Len(mcqs) = 1
    /\ <<question_stem, subject>> = PairOf(mcqs[1])

(***************************************************************************)
(* C6.  The sentence an attempt selects is a sentence of the text whose    *)
(* stripped length is over 15 and at most 200 and that has no digit, and   *)
(* the question of every MCQ returned is such a sentence with the answer   *)
(* blanked.                                                                *)
(***************************************************************************)
C6_StemFromCandidate ==
    /\ pc = "subject" => sentence \in Qualifying
    /\ Returned =>
          \A k \in DOMAIN returned :
              \E s \in Qualifying :
                  returned[k].question = ReplaceFirst(s, returned[k].answer_text, Blank)

\* an MCQ was returned for a text that has a sentence with digits
C6_Witness ==
    /\ pc = "return110"
    /\ Len(returned) = 1
    /\ HasDigit(text)

(***************************************************************************)
(* C7.  When the text is None or empty, or no sentence of it qualifies,    *)
(* the call returns the empty list, from line 41 or line 49, without       *)
(* entering the loop and without raising.  Stated by contraposition: a     *)
(* call that is past line 49, or that returned a question, has a text with *)
(* a qualifying sentence.                                                  *)
(***************************************************************************)
C7_UnusableTextReturnsEmpty ==
    pc \notin {"start", "return41", "return49"} \/ (Returned /\ returned # <<>>)
    => ~(text = None \/ text = <<>> \/ Qualifying = {})

\* a text with sentences, none of which qualifies, gave the empty list
C7_Witness ==
    /\ pc = "return49"
    /\ text # None /\ Len(text) > 200
    /\ returned = <<>>

(***************************************************************************)
(* C8.  No failure of a collaborator leaves the core: when the lookup of   *)
(* lexical alternatives raises, generate_mcqs goes on as if there were no  *)
(* alternatives and returns a list.                                        *)
(***************************************************************************)
C8_NoFailurePropagates == pc # "raised"

(***************************************************************************)
(* C9.  When no question is asked for (num_questions = 0) the call returns *)
(* the empty list and makes no attempt: no sentence is selected.           *)
(***************************************************************************)
C9_ZeroTargetNoAttempt ==
    num_questions = 0
    => /\ ~InAttempt /\ pc # "raised"
       /\ InLoop => attempts = 0 /\ mcqs = <<>>
       /\ Returned => returned = <<>>

\* the loop was entered for a text with candidate sentences and left at once
C9_Witness ==
    /\ num_questions = 0
    /\ pc = "return110"
    /\ sentences # <<>>
    /\ returned = <<>>

(***************************************************************************)
(* C10.  When the text has fewer than 4 nouns that differ without regard   *)
(* to case and there are no lexical alternatives, a call for one question  *)
(* or more raises nothing, accepts no attempt and returns fewer MCQs than  *)
(* asked for.                                                              *)
(***************************************************************************)
C10_FewNounsReturnsFewer ==
    (num_questions >= 1 /\ NoAlternatives /\ Cardinality(DocumentNouns) < 4)
    => /\ pc # "raised"
       /\ InLoop => mcqs = <<>>
       /\ Returned => Len(returned) < num_questions

\* two questions were asked of a text with two nouns; all 40 attempts were
\* made and nothing is returned
C10_Witness ==
    /\ Cardinality(DocumentNouns) = 2 /\ NoAlternatives
    /\ num_questions = 2
    /\ pc = "return110"
    /\ attempts = 40
    /\ returned = <<>>

(***************************************************************************)
(* C11.  During backfill, a word appended from the nouns of the text is    *)
(* never equal, without regard to case, to the subject nor to a word that  *)
(* is already in the list of distractors, the words appended earlier in    *)
(* the same backfill included.                                             *)
(***************************************************************************)
C11_BackfillNoDuplicates ==
    pc = "backfill" =>
        LET lowered == [i \in DOMAIN distractors |-> Lower(distractors[i])]
            base == BaseCount
        IN  \A i \in DOMAIN distractors :
                i > base =>
                    /\ lowered[i] # Lower(subject)
                    /\ \A j \in 1..(i - 1) : lowered[j] # lowered[i]

(***************************************************************************)
(* C12.  In every attempt the list of candidate distractors from which the *)
(* three distractors are sampled has at most 6 entries, and an attempt     *)
(* that has fewer than 3 candidates after backfill emits no MCQ.           *)
(***************************************************************************)
C12_AtMostSixCandidates ==
    /\ pc = "backfill" => Len(distractors) <= 6
    /\ InLoop => \A k \in DOMAIN mcqs : Len(mcqs[k].choices) = 4

(***************************************************************************)
(* C13.  Every word taken from a pool of nouns, that is the answer_text of *)
(* every MCQ returned and every distractor that backfill appended, is an   *)
(* alphabetic token longer than 2 characters that is tagged as a noun or a *)
(* proper noun.                                                            *)
(***************************************************************************)
C13_PoolWordsAlphaOverTwo ==
    /\ Returned =>
          \A k \in DOMAIN returned :
              /\ IsPoolWord(returned[k].answer_text)
              /\ returned[k].answer_text \in TaggedNouns
    /\ pc = "backfill" =>
          \A i \in DOMAIN distractors :
              i > BaseCount =>
                  /\ IsPoolWord(distractors[i])
                  /\ distractors[i] \in TaggedNouns

(***************************************************************************)
(* C14.  The question of every MCQ is the selected sentence with the first *)
(* token that equals the subject replaced by "_______" and every other     *)
(* token left as it is: one replacement, also when the subject occurs more *)
(* than once.                                                              *)
(***************************************************************************)
C14_FirstTokenBlanked ==
    /\ pc = "dedup" =>
          question_stem = Strip(SpanText(BlankFirstToken(Tokens(sentence), subject)))
    /\ Returned =>
          \A k \in DOMAIN returned :
              \E i \in DOMAIN nlp.doc :
                  returned[k].question =
                      Strip(SpanText(BlankFirstToken(nlp.doc[i], returned[k].answer_text)))

(***************************************************************************)
(* C15.  A rejected attempt (no nouns, a pair produced before, fewer than  *)
(* 3 distractors, a choice of one character or less, fewer than 4 distinct *)
(* choices) changes nothing but the attempt counter: the MCQs collected    *)
(* and the set of produced pairs stay as they are.  The only step that     *)
(* changes them appends one MCQ with four acceptable choices and adds its  *)
(* pair, which is new; the counter changes only at the head of an attempt, *)
(* by one.  In every state the set of produced pairs has exactly one entry *)
(* for each MCQ collected.                                                 *)
(***************************************************************************)
C15_RejectedAttemptFrame ==
    /\ [](InLoop => Cardinality(generated_questions) = Len(mcqs))
    /\ [][InLoop =>
            /\ sentences' = sentences /\ max_attempts' = max_attempts
            /\ attempts' = attempts \/ (pc = "loop" /\ attempts' = attempts + 1)
            /\ \/ mcqs' = mcqs /\ generated_questions' = generated_questions
               \/ /\ pc = "backfill" /\ Len(distractors) >= 3
                  /\ attempts' = attempts
                  /\ Len(mcqs') = Len(mcqs) + 1
                  /\ SubSeq(mcqs', 1, Len(mcqs)) = mcqs
                  /\ WellFormedChoices(mcqs'[Len(mcqs')])
                  /\ PairOf(mcqs'[Len(mcqs')]) = <<question_stem, subject>>
                  /\ PairOf(mcqs'[Len(mcqs')]) \notin generated_questions
                  /\ generated_questions' =
                        generated_questions \cup {PairOf(mcqs'[Len(mcqs')])}
            /\ (pc = "loop" /\ pc' = "loop") \/ pc = "dedup"
                  \/ (pc = "backfill" /\ Len(distractors) < 3 /\ pc' = "loop")
               => mcqs' = mcqs /\ generated_questions' = generated_questions
         ]_vars

\* an attempt was rejected after an MCQ had been collected: of 3 attempts,
\* one gave the MCQ
C15_Witness ==
    /\ pc = "loop"
    /\ num_questions = 2
    /\ Len(mcqs) = 1
    /\ attempts = 3

(***************************************************************************)
(* Vocabulary of the properties of the session.                            *)
(***************************************************************************)
\* the entries of answers that are marked correct
CorrectAnswers ==
    {k \in DOMAIN session_state.answers : session_state.answers[k].is_correct}

\* a step that takes the session to the quiz page
EntersQuiz == session_state.page # "quiz" /\ session_state'.page = "quiz"

\* the quiz page at the first question of the MCQs just returned
FreshQuiz ==
    session_state' =
        [page |-> "quiz", mcqs |-> returned, current_q |-> 0, score |-> 0,
         answers |-> <<>>, answered |-> FALSE]

\* the Generate button's handler is at the end of a call that returned MCQs
GenerationSucceeded == Returned /\ returned # <<>>

\* the characters of t that are not blank
NonBlank(t) == Cardinality({i \in 1..Len(t) : ~IsSpace(t[i])})

(***************************************************************************)
(* C16.  In every state of the session, score is 10 times the number of    *)
(* entries of answers that are marked correct; the k-th entry is marked    *)
(* correct exactly when its selected letter is the answer letter of the    *)
(* k-th question; and score is at most 10 times the number of questions.   *)
(***************************************************************************)
C16_ScoreCountsCorrectAnswers ==
    /\ session_state.score = 10 * Cardinality(CorrectAnswers)
    /\ \A k \in DOMAIN session_state.answers :
          /\ k <= Len(session_state.mcqs)
          /\ session_state.answers[k].is_correct
                <=> session_state.answers[k].selected = session_state.mcqs[k].answer
    /\ session_state.score <= 10 * Len(session_state.mcqs)

\* a quiz of two questions ended with one wrong and one right answer
C16_Witness ==
    /\ session_state.page = "results"
    /\ Len(session_state.mcqs) = 2
    /\ ~session_state.answers[1].is_correct
    /\ session_state.answers[2].is_correct
    /\ session_state.score = 10

(***************************************************************************)
(* C17.  In every state of the session the number of answers is current_q, *)
(* plus one when answered is true, and it is at most the number of         *)
(* questions; the k-th answer is the answer to the k-th question; no       *)
(* answer is recorded while answered is true; and the results page is      *)
(* entered only with current_q at the number of questions, one answer      *)
(* recorded for each.                                                      *)
(***************************************************************************)
C17_OneAnswerPerQuestion ==
    /\ [](/\ Len(session_state.answers) =
                session_state.current_q + (IF session_state.answered THEN 1 ELSE 0)
          /\ Len(session_state.answers) <= Len(session_state.mcqs)
          /\ \A k \in DOMAIN session_state.answers :
                /\ session_state.answers[k].correct = session_state.mcqs[k].answer
                /\ session_state.answers[k].correct_text =
                      session_state.mcqs[k].answer_text
          /\ session_state.page = "results" =>
                /\ session_state.current_q >= Len(session_state.mcqs)
                /\ Len(session_state.answers) = Len(session_state.mcqs))
    /\ [][/\ session_state.answered =>
                session_state'.answers = session_state.answers
          /\ session_state'.answers # session_state.answers =>
                \/ session_state'.answers = <<>>
                \/ /\ Len(session_state'.answers) = Len(session_state.answers) + 1
                   /\ session_state'.current_q = session_state.current_q
          /\ session_state.page # "results" /\ session_state'.page = "results" =>
                session_state.current_q >= Len(session_state.mcqs)
         ]_vars

\* the results page after a quiz of two questions
C17_Witness ==
    /\ session_state.page = "results"
    /\ session_state.current_q = 2
    /\ Len(session_state.answers) = 2
    /\ Len(session_state.mcqs) = 2

(***************************************************************************)
(* C18.  The session enters the quiz page only from the home page after a  *)
(* generation that returned MCQs, with current_q = 0, score = 0, no        *)
(* answers and answered false; when no file is uploaded, the extraction    *)
(* fails or gives fewer than 100 non-blank characters, or the generation   *)
(* returns no MCQ, the page stays home and the session state is left as it *)
(* is.  Here as stated, the 100 characters counted without the blank ones. *)
(***************************************************************************)
C18_QuizOnlyWithHundredNonBlank ==
    [][/\ EntersQuiz =>
            /\ session_state.page = "home"
            /\ GenerationSucceeded
            /\ text # None /\ NonBlank(text) >= 100
            /\ FreshQuiz
       /\ session_state.page = "home" /\ ~GenerationSucceeded =>
            session_state' = session_state
      ]_vars

(***************************************************************************)
(* C18, amended.  The same, with the text counted as the code counts it:   *)
(* the page stays home when the extracted text, stripped of the whitespace *)
(* at its two ends, has fewer than 100 characters, the blank characters    *)
(* inside it counted.                                                      *)
(***************************************************************************)
C18_QuizOnlyAfterGeneration ==
    [][/\ EntersQuiz =>
            /\ session_state.page = "home"
            /\ GenerationSucceeded
            /\ text # None /\ Len(Strip(text)) >= 100
            /\ FreshQuiz
       /\ session_state.page = "home" /\ ~GenerationSucceeded =>
            session_state' = session_state
      ]_vars

\* the quiz page was just entered, with two questions
C18_Witness ==
    /\ session_state.page = "quiz"
    /\ Len(session_state.mcqs) = 2
    /\ session_state.current_q = 0
    /\ session_state.answers = <<>>
    /\ ~session_state.answered

====
